---- MODULE Spec2Model ----
(***************************************************************************)
(* State-machine model of src/main.py (FingerprintScanner): the template   *)
(* lifecycle between the device's volatile template cache (ZKFP2 DB*       *)
(* calls), the sqlite table `fingerprints` and the running capture         *)
(* sessions.  Event handlers (connect_to_device, start_register,           *)
(* start_identification) run as threads that interleave; store accesses    *)
(* are serialised by db_lock.                                               *)
(***************************************************************************)
EXTENDS Integers, Sequences, FiniteSets, TLC

(***************************************************************************)
(* Bounds of the model.                                                     *)
(***************************************************************************)
\* longest byte string the codec is checked on
MaxTemplateLen == 3

\* largest user_id a registration may be allocated
MaxUserId == 2

\* number of handlers that run at the same time
MaxRunning == 2

\* worker threads running start_register; one thread runs
\* start_identification and one runs connect_to_device
Registrars == {"r1", "r2"}
Identifier == "id"
Connector == "con"
Procs == Registrars \cup {Identifier, Connector}
NoOne == "nobody"

\* templates the device can hand out (byte strings); NoTemplate is what
\* DBMerge gives when it fails (None or an empty buffer, both falsy)
TemplateA == <<77, 97>>
TemplateB == <<255>>
Templates == {TemplateA, TemplateB}
NoTemplate == << >>
Samples == {"sample"}
\* fetchone() gave None: no row
NoRow == << >>
\* SQL NULL in an integer column
SqlNull == 0 - 1

(***************************************************************************)
(* base64: symbols 0..63 are the alphabet, Pad is '=', a symbol above Pad  *)
(* stands for a character outside the alphabet.                             *)
(***************************************************************************)
Pad == 64

\* variant: the '=' padding is left out
RECURSIVE b64encode_unpadded(_)
b64encode_unpadded(b) ==
    IF Len(b) = 0 THEN <<>>
    ELSE IF Len(b) = 1 THEN
        << b[1] \div 4, (b[1] % 4) * 16 >>
    ELSE IF Len(b) = 2 THEN
        << b[1] \div 4, (b[1] % 4) * 16 + (b[2] \div 16), (b[2] % 16) * 4 >>
    ELSE
        << b[1] \div 4, (b[1] % 4) * 16 + (b[2] \div 16),
           (b[2] % 16) * 4 + (b[3] \div 64), b[3] % 64 >>
        \o b64encode_unpadded(SubSeq(b, 4, Len(b)))

\* base64.b64encode: 3 bytes -> 4 symbols, '=' padded
RECURSIVE b64encode(_)
b64encode(b) ==
    IF Len(b) = 0 THEN <<>>
    ELSE IF Len(b) = 1 THEN
        << b[1] \div 4, (b[1] % 4) * 16, Pad, Pad >>
    ELSE IF Len(b) = 2 THEN
        << b[1] \div 4, (b[1] % 4) * 16 + (b[2] \div 16), (b[2] % 16) * 4, Pad >>
    ELSE
        << b[1] \div 4, (b[1] % 4) * 16 + (b[2] \div 16),
           (b[2] % 16) * 4 + (b[3] \div 64), b[3] % 64 >>
        \o b64encode(SubSeq(b, 4, Len(b)))

\* binascii.Error raised by b64decode
CodecError == << 0 - 1 >>

\* base64.b64decode(s) with validate=False (binascii.a2b_base64, non-strict):
\* characters outside the alphabet are dropped, a complete pad sequence ends
\* the parse, a dangling quad raises.
RECURSIVE a2b_base64(_, _, _, _, _, _)
a2b_base64(s, i, quad_pos, leftchar, pads, out) ==
    IF i > Len(s) THEN
        IF quad_pos # 0 THEN CodecError ELSE out
    ELSE IF s[i] = Pad THEN
        IF quad_pos >= 2 /\ quad_pos + pads + 1 >= 4 THEN out
        ELSE a2b_base64(s, i + 1, quad_pos, leftchar,
                        IF quad_pos >= 2 THEN pads + 1 ELSE pads, out)
    ELSE IF s[i] > Pad THEN
        a2b_base64(s, i + 1, quad_pos, leftchar, pads, out)
    ELSE IF quad_pos = 0 THEN
        a2b_base64(s, i + 1, 1, s[i], 0, out)
    ELSE IF quad_pos = 1 THEN
        a2b_base64(s, i + 1, 2, s[i] % 16, 0,
                   Append(out, leftchar * 4 + (s[i] \div 16)))
    ELSE IF quad_pos = 2 THEN
        a2b_base64(s, i + 1, 3, s[i] % 4, 0,
                   Append(out, leftchar * 16 + (s[i] \div 4)))
    ELSE
        a2b_base64(s, i + 1, 0, 0, 0, Append(out, leftchar * 64 + s[i]))

b64decode(s) == a2b_base64(s, 1, 0, 0, 0, <<>>)

\* a stored string that is not valid base64 (one data character)
Corrupt == <<19>>

(***************************************************************************)
(* State.                                                                   *)
(***************************************************************************)
VARIABLES
    fingerprints,   \* table fingerprints: user_id -> fingerprint_template
    table_exists,   \* the table has been created
    zkfp2_db,       \* the device's template cache: fid -> template
    is_connected,   \* self.is_connected
    db_lock,        \* holder of self.db_lock, or NoOne
    reg,            \* start_register threads
    idn,            \* start_identification thread
    con,            \* connect_to_device thread
    committed,      \* history: the user_ids inserted by registrations, in order
    ended           \* history: the handler that returned in the last step

vars == << fingerprints, table_exists, zkfp2_db, is_connected, db_lock,
           reg, idn, con, committed, ended >>

EmptyMap == [u \in {} |-> << >>]

\* the empty function on user ids, extended by one pair
Put(f, k, v) == [x \in DOMAIN f \cup {k} |-> IF x = k THEN v ELSE f[x]]

MaxOf(S) == CHOOSE m \in S : \A x \in S : x <= m

(***************************************************************************)
(* The store and the device, as the code uses them.                         *)
(***************************************************************************)
\* SELECT MAX(user_id) FROM fingerprints; fetchone()[0]
SelectMaxUserId(table) ==
    IF DOMAIN table = {} THEN SqlNull ELSE MaxOf(DOMAIN table)

\* variant: `result if result else 1` (the increment forgotten)
get_next_user_id_no_increment(table) ==
    LET result == SelectMaxUserId(table)
    IN IF result # SqlNull /\ result # 0 THEN result ELSE 1

\* variant: `result + 1 if result else 0` (ids started at 0)
get_next_user_id_from_zero(table) ==
    LET result == SelectMaxUserId(table)
    IN IF result # SqlNull /\ result # 0 THEN result + 1 ELSE 0

\* get_next_user_id: result + 1 if result else 1
get_next_user_id(table) ==
    LET result == SelectMaxUserId(table)
    IN IF result # SqlNull /\ result # 0 THEN result + 1 ELSE 1

\* variant: user_id declared without PRIMARY KEY (INSERT OR REPLACE semantics)
InsertNeverViolatesKey(table, user_id) == FALSE

\* INSERT INTO fingerprints ...: user_id is the PRIMARY KEY, so a second row
\* with the same user_id raises sqlite3.IntegrityError
InsertViolatesKey(table, user_id) == user_id \in DOMAIN table

\* variant: the table is emptied before the INSERT (only the latest kept)
InsertRowKeepingLatest(table, user_id, fingerprint_template) ==
    Put(EmptyMap, user_id, fingerprint_template)

\* the row (user_id, fingerprint_template, last_updated) joins the table
InsertRow(table, user_id, fingerprint_template) ==
    Put(table, user_id, fingerprint_template)

\* SELECT user_id, fingerprint_template FROM fingerprints; fetchall():
\* the rows in rowid (= user_id) order
RECURSIVE FetchAll(_)
FetchAll(table) ==
    IF DOMAIN table = {} THEN <<>>
    ELSE LET m == MaxOf(DOMAIN table)
         IN Append(FetchAll([u \in DOMAIN table \ {m} |-> table[u]]),
                   << m, table[m] >>)

\* SELECT * FROM fingerprints WHERE user_id = ?; fetchone()
FetchById(table, user_id) ==
    IF user_id \in DOMAIN table THEN << user_id, table[user_id] >> ELSE NoRow

\* zkfp2.DBAdd(fid, template): the device keeps one template per fid; whether
\* a second add under a fid replaces the first is the device's choice
DBAdd(db, fid, template, replaces) ==
    IF fid \in DOMAIN db /\ ~replaces THEN db ELSE Put(db, fid, template)

\* zkfp2.DBIdentify(tmp): 0 (no match) or the fid of a cached template
DBIdentify(db) == {0} \cup DOMAIN db

\* bool(regTemp)
Truthy(regTemp) == regTemp # NoTemplate

\* zkfp2.DBMerge(*templates) in the handler p: the merged template of the
\* finger that is being enrolled there (one person per handler), or nothing
DBMerge(p) ==
    {IF p = "r1" THEN TemplateA ELSE TemplateB, NoTemplate}

(***************************************************************************)
(* Initial state: the application has just been constructed.  The database *)
(* file is whatever an earlier run (or anything else) left on disk.         *)
(***************************************************************************)
InitialTables ==
    { EmptyMap,
      Put(EmptyMap, 1, b64encode(TemplateA)),
      Put(EmptyMap, 2, b64encode(TemplateB)),
      Put(Put(EmptyMap, 1, Corrupt), 2, b64encode(TemplateB)) }

\* a handler that is not running; `calls` (the device and store calls made),
\* `outcome` (the dialog shown or "Raised"), `fresh`, `gap` and `quiet`
\* (nothing else ran meanwhile), `calm` (no registration committed
\* meanwhile) and `rows0` (the rows of the table when the handler started)
\* are history
RegIdle ==
    [pc |-> "idle", templates |-> <<>>, fid |-> 0, regTemp |-> NoTemplate,
     user_id |-> 0, calls |-> <<>>, outcome |-> "", fresh |-> FALSE,
     rows0 |-> 0]

IdnIdle ==
    [pc |-> "idle", fid |-> 0, user_id |-> 0, row |-> NoRow,
     outcome |-> "", gap |-> FALSE, calm |-> FALSE]

ConIdle ==
    [pc |-> "idle", rows |-> <<>>, outcome |-> "", quiet |-> FALSE]

NoneEnded == << >>

Init ==
    /\ fingerprints \in InitialTables
    /\ table_exists \in {TRUE, DOMAIN fingerprints # {}}
    /\ zkfp2_db = EmptyMap
    /\ is_connected = FALSE
    /\ db_lock = NoOne
    /\ reg = [p \in Registrars |-> RegIdle]
    /\ idn = IdnIdle
    /\ con = ConIdle
    /\ committed = <<>>
    /\ ended = NoneEnded

Running(r) == r.pc # "idle"

\* the handler `who` returns (or an exception leaves it) with record `rec`
Ended(who, rec) == << [who |-> who, rec |-> [rec EXCEPT !.pc = "done"]] >>

\* when a handler starts, a handler that was running alone stops being alone
RegsDisturbed == [q \in Registrars |-> [reg[q] EXCEPT !.fresh = FALSE]]
IdnDisturbed == [idn EXCEPT !.gap = FALSE]

\* the handlers that have started and not yet returned
RunningHandlers ==
    {q \in Registrars : Running(reg[q])}
      \cup (IF Running(idn) THEN {Identifier} ELSE {})
      \cup (IF Running(con) THEN {Connector} ELSE {})

NothingRunning == RunningHandlers = {}

\* a worker is free to run one more handler
WorkerFree == Cardinality(RunningHandlers) < MaxRunning

\* the identification in progress is no longer calm once a registration
\* commits
Overtaken == IF Running(idn) THEN [idn EXCEPT !.calm = FALSE] ELSE idn

\* the connect in progress is no longer quiet once a registration commits
Noisy == IF Running(con) THEN [con EXCEPT !.quiet = FALSE] ELSE con

(***************************************************************************)
(* start_register (register_page), lines 266-343.                           *)
(***************************************************************************)
\* the Register tile is enabled once is_connected; the handler starts
StartRegister(p) ==
    /\ WorkerFree
    /\ is_connected
    /\ ~Running(reg[p])
    /\ (IF DOMAIN fingerprints = {} THEN 0 ELSE MaxOf(DOMAIN fingerprints))
         + Cardinality({q \in Registrars : Running(reg[q])}) + 1 <= MaxUserId
    /\ reg' = [RegsDisturbed EXCEPT ![p] =
                 [RegIdle EXCEPT !.pc = "capture",
                                 !.rows0 = Cardinality(DOMAIN fingerprints),
                                 !.fresh = /\ DOMAIN fingerprints = {}
                                           /\ DOMAIN zkfp2_db = {}
                                           /\ table_exists
                                           /\ NothingRunning]]
    /\ idn' = IdnDisturbed
    /\ ended' = NoneEnded
    /\ UNCHANGED << fingerprints, table_exists, zkfp2_db, is_connected,
                    db_lock, con, committed >>

\* AcquireFingerprint() returned nothing: sleep(0.5) and poll again
RegisterPollMiss(p) ==
    /\ reg[p].pc = "capture"
    /\ UNCHANGED vars

\* variant: the `return` after the "Fingerprint Exists" dialog is missing
RegisterCaptureNoReturn(p) ==
    /\ reg[p].pc = "capture"
    /\ \E tmp \in Samples, fid \in DBIdentify(zkfp2_db) :
         reg' = [reg EXCEPT ![p].fid = fid,
                            ![p].outcome = IF fid # 0 THEN "FingerprintExists"
                                           ELSE reg[p].outcome,
                            ![p].templates = Append(@, tmp),
                            ![p].pc = IF Len(reg[p].templates) + 1 = 3
                                      THEN "merge" ELSE "capture"]
    /\ ended' = NoneEnded
    /\ UNCHANGED << fingerprints, table_exists, zkfp2_db, is_connected,
                    db_lock, idn, con, committed >>

\* variant: `for i in range(2)`, DBMerge is reached a sample early
RegisterCaptureTwoRounds(p) ==
    /\ reg[p].pc = "capture"
    /\ \E tmp \in Samples, fid \in DBIdentify(zkfp2_db) :
         IF fid # 0
         THEN /\ reg' = [reg EXCEPT ![p] = RegIdle]
              /\ ended' = Ended(p, [reg[p] EXCEPT !.fid = fid,
                                                  !.outcome = "FingerprintExists"])
         ELSE /\ reg' = [reg EXCEPT ![p].templates = Append(@, tmp),
                                    ![p].pc = IF Len(reg[p].templates) + 1 = 2
                                              THEN "merge" ELSE "capture"]
              /\ ended' = NoneEnded
    /\ UNCHANGED << fingerprints, table_exists, zkfp2_db, is_connected,
                    db_lock, idn, con, committed >>

\* AcquireFingerprint() returned a sample; DBIdentify; return on a match,
\* otherwise templates.append(tmp)
RegisterCapture(p) ==
    /\ reg[p].pc = "capture"
    /\ \E tmp \in Samples, fid \in DBIdentify(zkfp2_db) :
         IF fid # 0
         THEN /\ reg' = [reg EXCEPT ![p] = RegIdle]
              /\ ended' = Ended(p, [reg[p] EXCEPT !.fid = fid,
                                                  !.outcome = "FingerprintExists"])
         ELSE /\ reg' = [reg EXCEPT ![p].templates = Append(@, tmp),
                                    ![p].pc = IF Len(reg[p].templates) + 1 = 3
                                              THEN "merge" ELSE "capture"]
              /\ ended' = NoneEnded
    /\ UNCHANGED << fingerprints, table_exists, zkfp2_db, is_connected,
                    db_lock, idn, con, committed >>

\* variant: the `if regTemp:` test is missing, the commit path always runs
RegisterMergeNoCheck(p) ==
    /\ reg[p].pc = "merge"
    /\ \E regTemp \in DBMerge(p) :
         /\ reg' = [reg EXCEPT ![p].regTemp = regTemp,
                               ![p].calls = Append(@, "merge"),
                               ![p].pc = "next_id_wait"]
         /\ ended' = NoneEnded
    /\ UNCHANGED << fingerprints, table_exists, zkfp2_db, is_connected,
                    db_lock, idn, con, committed >>

\* regTemp, regTempLen = DBMerge(*templates); if regTemp: ... else: error
RegisterMerge(p) ==
    /\ reg[p].pc = "merge"
    /\ \E regTemp \in DBMerge(p) :
         IF Truthy(regTemp)
         THEN /\ reg' = [reg EXCEPT ![p].regTemp = regTemp,
                                    ![p].calls = Append(@, "merge"),
                                    ![p].pc = "next_id_wait"]
              /\ ended' = NoneEnded
         ELSE /\ reg' = [reg EXCEPT ![p] = RegIdle]
              /\ ended' = Ended(p, [reg[p] EXCEPT !.calls = Append(@, "merge"),
                                                  !.outcome = "MergeFailed"])
    /\ UNCHANGED << fingerprints, table_exists, zkfp2_db, is_connected,
                    db_lock, idn, con, committed >>

\* variant: get_next_user_id makes its query without `with self.db_lock`
RegisterNextIdNoLock(p) ==
    /\ reg[p].pc = "next_id_wait"
    /\ db_lock' = p
    /\ reg' = [reg EXCEPT ![p].pc = "next_id"]
    /\ ended' = NoneEnded
    /\ UNCHANGED << fingerprints, table_exists, zkfp2_db, is_connected, idn,
                    con, committed >>

\* get_next_user_id: with self.db_lock
RegisterNextIdLock(p) ==
    /\ reg[p].pc = "next_id_wait"
    /\ db_lock = NoOne
    /\ db_lock' = p
    /\ reg' = [reg EXCEPT ![p].pc = "next_id"]
    /\ ended' = NoneEnded
    /\ UNCHANGED << fingerprints, table_exists, zkfp2_db, is_connected, idn,
                    con, committed >>

\* variant: acquire() and release() around the query instead of `with`, so
\* the exception leaves the lock held
RegisterNextIdNoRelease(p) ==
    /\ reg[p].pc = "next_id"
    /\ IF table_exists
       THEN /\ reg' = [reg EXCEPT ![p].user_id = get_next_user_id(fingerprints),
                                  ![p].pc = "dbadd"]
            /\ ended' = NoneEnded
            /\ db_lock' = NoOne
       ELSE /\ reg' = [reg EXCEPT ![p] = RegIdle]
            /\ ended' = Ended(p, [reg[p] EXCEPT !.outcome = "Raised"])
            /\ db_lock' = db_lock
    /\ UNCHANGED << fingerprints, table_exists, zkfp2_db, is_connected, idn,
                    con, committed >>

\* get_next_user_id: the query; without the table sqlite3.OperationalError
\* leaves the handler
RegisterNextId(p) ==
    /\ reg[p].pc = "next_id"
    /\ db_lock' = NoOne
    /\ IF table_exists
       THEN /\ reg' = [reg EXCEPT ![p].user_id = get_next_user_id(fingerprints),
                                  ![p].pc = "dbadd"]
            /\ ended' = NoneEnded
       ELSE /\ reg' = [reg EXCEPT ![p] = RegIdle]
            /\ ended' = Ended(p, [reg[p] EXCEPT !.outcome = "Raised"])
    /\ UNCHANGED << fingerprints, table_exists, zkfp2_db, is_connected, idn,
                    con, committed >>

\* self.zkfp2.DBAdd(user_id, regTemp)
RegisterDBAdd(p) ==
    /\ reg[p].pc = "dbadd"
    /\ \E replaces \in BOOLEAN :
         zkfp2_db' = DBAdd(zkfp2_db, reg[p].user_id, reg[p].regTemp, replaces)
    /\ reg' = [reg EXCEPT ![p].calls = Append(@, "DBAdd"),
                          ![p].pc = "save_wait"]
    /\ con' = Noisy
    /\ ended' = NoneEnded
    /\ UNCHANGED << fingerprints, table_exists, is_connected, db_lock, idn,
                    committed >>

\* save_fingerprint_to_db: with self.db_lock
RegisterSaveLock(p) ==
    /\ reg[p].pc = "save_wait"
    /\ db_lock = NoOne
    /\ db_lock' = p
    /\ reg' = [reg EXCEPT ![p].pc = "save"]
    /\ ended' = NoneEnded
    /\ UNCHANGED << fingerprints, table_exists, zkfp2_db, is_connected, idn,
                    con, committed >>

\* variant: save_fingerprint_to_db is called again after an INSERT that
\* went through
RegisterSaveAgain(p) ==
    /\ reg[p].pc = "save"
    /\ db_lock' = NoOne
    /\ \E io_fault \in BOOLEAN :
         IF io_fault \/ ~table_exists
            \/ InsertViolatesKey(fingerprints, reg[p].user_id)
         THEN /\ fingerprints' = fingerprints
              /\ committed' = committed
              /\ reg' = [reg EXCEPT ![p] = RegIdle]
              /\ ended' = Ended(p, [reg[p] EXCEPT
                                      !.calls = Append(@, "insert_failed"),
                                      !.outcome = "RegistrationSuccess"])
              /\ con' = con
              /\ idn' = idn
         ELSE /\ fingerprints' = InsertRow(fingerprints, reg[p].user_id,
                                           b64encode(reg[p].regTemp))
              /\ committed' = Append(committed, reg[p].user_id)
              /\ reg' = [reg EXCEPT ![p].calls = Append(@, "insert"),
                                    ![p].pc = "save_wait"]
              /\ ended' = NoneEnded
              /\ con' = Noisy
              /\ idn' = Overtaken
    /\ UNCHANGED << table_exists, zkfp2_db, is_connected >>

\* save_fingerprint_to_db: INSERT and commit; sqlite3.DatabaseError (key
\* violation, missing table, I/O fault) is logged and swallowed; then
\* start_register shows "Registration Success" and returns
RegisterSave(p) ==
    /\ reg[p].pc = "save"
    /\ db_lock' = NoOne
    /\ reg' = [reg EXCEPT ![p] = RegIdle]
    /\ \E io_fault \in BOOLEAN :
         IF io_fault \/ ~table_exists
            \/ InsertViolatesKey(fingerprints, reg[p].user_id)
         THEN /\ fingerprints' = fingerprints
              /\ committed' = committed
              /\ ended' = Ended(p, [reg[p] EXCEPT
                                      !.calls = Append(@, "insert_failed"),
                                      !.outcome = "RegistrationSuccess"])
              /\ con' = con
              /\ idn' = idn
         ELSE /\ fingerprints' = InsertRow(fingerprints, reg[p].user_id,
                                           b64encode(reg[p].regTemp))
              /\ committed' = Append(committed, reg[p].user_id)
              /\ ended' = Ended(p, [reg[p] EXCEPT
                                      !.calls = Append(@, "insert"),
                                      !.outcome = "RegistrationSuccess"])
              /\ con' = Noisy
              /\ idn' = Overtaken
    /\ UNCHANGED << table_exists, zkfp2_db, is_connected >>

(***************************************************************************)
(* start_identification (identify_page), lines 379-437.                     *)
(***************************************************************************)
StartIdentification ==
    /\ WorkerFree
    /\ is_connected
    /\ ~Running(idn)
    /\ idn' = [IdnIdle EXCEPT !.pc = "capture",
                              !.calm = TRUE,
                              !.gap = /\ DOMAIN fingerprints # {}
                                      /\ DOMAIN zkfp2_db = {}
                                      /\ table_exists
                                      /\ NothingRunning]
    /\ reg' = RegsDisturbed
    /\ ended' = NoneEnded
    /\ UNCHANGED << fingerprints, table_exists, zkfp2_db, is_connected,
                    db_lock, con, committed >>

\* AcquireFingerprint() returned nothing: log, sleep(0.5), poll again
IdentifyPollMiss ==
    /\ idn.pc = "capture"
    /\ UNCHANGED vars

\* variant: the database lookup is not in an `else:`, it follows a match too
IdentifyCaptureThenLookup ==
    /\ idn.pc = "capture"
    /\ \E tmp \in Samples, fid \in DBIdentify(zkfp2_db) :
         /\ idn' = [idn EXCEPT !.fid = fid, !.pc = "next_id_wait"]
         /\ ended' = NoneEnded
    /\ UNCHANGED << fingerprints, table_exists, zkfp2_db, is_connected,
                    db_lock, reg, con, committed >>

\* a sample arrived; fid, score = DBIdentify(tmp); a match is reported
IdentifyCapture ==
    /\ idn.pc = "capture"
    /\ \E tmp \in Samples, fid \in DBIdentify(zkfp2_db) :
         IF fid # 0
         THEN /\ idn' = IdnIdle
              /\ ended' = Ended(Identifier, [idn EXCEPT !.fid = fid,
                                                        !.outcome = "UserIdentified"])
         ELSE /\ idn' = [idn EXCEPT !.fid = 0, !.pc = "next_id_wait"]
              /\ ended' = NoneEnded
    /\ UNCHANGED << fingerprints, table_exists, zkfp2_db, is_connected,
                    db_lock, reg, con, committed >>

\* user_id = self.get_next_user_id(): with self.db_lock
IdentifyNextIdLock ==
    /\ idn.pc = "next_id_wait"
    /\ db_lock = NoOne
    /\ db_lock' = Identifier
    /\ idn' = [idn EXCEPT !.pc = "next_id"]
    /\ ended' = NoneEnded
    /\ UNCHANGED << fingerprints, table_exists, zkfp2_db, is_connected, reg,
                    con, committed >>

\* get_next_user_id: the query
IdentifyNextId ==
    /\ idn.pc = "next_id"
    /\ db_lock' = NoOne
    /\ IF table_exists
       THEN /\ idn' = [idn EXCEPT !.user_id = get_next_user_id(fingerprints),
                                  !.pc = "fetch_wait"]
            /\ ended' = NoneEnded
       ELSE /\ idn' = IdnIdle
            /\ ended' = Ended(Identifier, [idn EXCEPT !.outcome = "Raised"])
    /\ UNCHANGED << fingerprints, table_exists, zkfp2_db, is_connected, reg,
                    con, committed >>

\* variant: the SELECT by user_id is made without `with self.db_lock`
IdentifyFetchNoLock ==
    /\ idn.pc = "fetch_wait"
    /\ db_lock' = db_lock
    /\ idn' = [idn EXCEPT !.pc = "fetch"]
    /\ ended' = NoneEnded
    /\ UNCHANGED << fingerprints, table_exists, zkfp2_db, is_connected, reg,
                    con, committed >>

\* with self.db_lock: SELECT * FROM fingerprints WHERE user_id = ?
IdentifyFetchLock ==
    /\ idn.pc = "fetch_wait"
    /\ db_lock = NoOne
    /\ db_lock' = Identifier
    /\ idn' = [idn EXCEPT !.pc = "fetch"]
    /\ ended' = NoneEnded
    /\ UNCHANGED << fingerprints, table_exists, zkfp2_db, is_connected, reg,
                    con, committed >>

\* row = fetchone()
IdentifyFetch ==
    /\ idn.pc = "fetch"
    /\ db_lock' = NoOne
    /\ idn' = [idn EXCEPT !.row = FetchById(fingerprints, idn.user_id),
                          !.pc = "heal"]
    /\ ended' = NoneEnded
    /\ UNCHANGED << fingerprints, table_exists, zkfp2_db, is_connected, reg,
                    con, committed >>

\* if row: b64decode, DBAdd, "User Found in Database"
\* else: "Identification Failed"
IdentifyHeal ==
    /\ idn.pc = "heal"
    /\ idn' = IdnIdle
    /\ IF idn.row = NoRow
       THEN /\ ended' = Ended(Identifier,
                              [idn EXCEPT !.outcome = "IdentificationFailed"])
            /\ zkfp2_db' = zkfp2_db
       ELSE LET decoded_template == b64decode(idn.row[2])
            IN IF decoded_template = CodecError
               THEN /\ ended' = Ended(Identifier, [idn EXCEPT !.outcome = "Raised"])
                    /\ zkfp2_db' = zkfp2_db
               ELSE /\ ended' = Ended(Identifier,
                                      [idn EXCEPT !.outcome = "FoundInDatabase"])
                    /\ \E replaces \in BOOLEAN :
                         zkfp2_db' = DBAdd(zkfp2_db, idn.user_id,
                                           decoded_template, replaces)
    /\ UNCHANGED << fingerprints, table_exists, is_connected, db_lock, reg,
                    con, committed >>

(***************************************************************************)
(* connect_to_device, lines 46-116.                                         *)
(***************************************************************************)
\* the steps of initialize_zkfp2 that can raise
InitSteps == {"Init", "GetDeviceCount", "OpenDevice", "Light", "DBClear"}

\* variant: initialize_zkfp2 without the DBClear() call
ConnectInitializeNoClear ==
    /\ WorkerFree
    /\ ~Running(con)
    /\ \E failed \in InitSteps \cup {"none"} :
         IF failed = "none"
         THEN /\ is_connected' = TRUE
              /\ con' = [ConIdle EXCEPT !.pc = "setup_wait", !.quiet = TRUE]
              /\ ended' = NoneEnded
         ELSE /\ is_connected' = is_connected
              /\ con' = ConIdle
              /\ ended' = Ended(Connector,
                                [ConIdle EXCEPT !.outcome = "ConnectionError"])
    /\ reg' = RegsDisturbed
    /\ idn' = IdnDisturbed
    /\ UNCHANGED << fingerprints, table_exists, zkfp2_db, db_lock, committed >>

\* initialize_zkfp2 and the dialog that follows: any failing step returns
\* False ("Connection Error"); otherwise the device cache is cleared and
\* is_connected is set
ConnectInitialize ==
    /\ WorkerFree
    /\ ~Running(con)
    /\ \E failed \in InitSteps \cup {"none"} :
         IF failed = "none"
         THEN /\ zkfp2_db' = EmptyMap
              /\ is_connected' = TRUE
              /\ con' = [ConIdle EXCEPT !.pc = "setup_wait", !.quiet = TRUE]
              /\ ended' = NoneEnded
         ELSE /\ zkfp2_db' = zkfp2_db
              /\ is_connected' = is_connected
              /\ con' = ConIdle
              /\ ended' = Ended(Connector,
                                [ConIdle EXCEPT !.outcome = "ConnectionError"])
    /\ reg' = RegsDisturbed
    /\ idn' = IdnDisturbed
    /\ UNCHANGED << fingerprints, table_exists, db_lock, committed >>

\* setup_database: with self.db_lock
ConnectSetupLock ==
    /\ con.pc = "setup_wait"
    /\ db_lock = NoOne
    /\ db_lock' = Connector
    /\ con' = [con EXCEPT !.pc = "setup"]
    /\ ended' = NoneEnded
    /\ UNCHANGED << fingerprints, table_exists, zkfp2_db, is_connected, reg,
                    idn, committed >>

\* CREATE TABLE IF NOT EXISTS fingerprints; commit
ConnectSetup ==
    /\ con.pc = "setup"
    /\ db_lock' = NoOne
    /\ table_exists' = TRUE
    /\ con' = [con EXCEPT !.pc = "load_wait"]
    /\ ended' = NoneEnded
    /\ UNCHANGED << fingerprints, zkfp2_db, is_connected, reg, idn, committed >>

\* load_fingerprints_from_db: with self.db_lock
ConnectLoadLock ==
    /\ con.pc = "load_wait"
    /\ db_lock = NoOne
    /\ db_lock' = Connector
    /\ con' = [con EXCEPT !.pc = "load"]
    /\ ended' = NoneEnded
    /\ UNCHANGED << fingerprints, table_exists, zkfp2_db, is_connected, reg,
                    idn, committed >>

\* rows = fetchall(); with no rows the loop is skipped and the load returns
ConnectLoadFetch ==
    /\ con.pc = "load"
    /\ db_lock' = NoOne
    /\ LET rows == FetchAll(fingerprints)
       IN IF rows = <<>>
          THEN /\ con' = ConIdle
               /\ ended' = Ended(Connector, [con EXCEPT !.outcome = "Loaded"])
          ELSE /\ con' = [con EXCEPT !.rows = rows, !.pc = "rows"]
               /\ ended' = NoneEnded
    /\ UNCHANGED << fingerprints, table_exists, zkfp2_db, is_connected, reg,
                    idn, committed >>

\* one turn of `for row in rows`: b64decode (binascii.Error leaves the
\* handler), add_fingerprint_to_zkfp; after the last row the load returns
ConnectLoadRow ==
    /\ con.pc = "rows"
    /\ LET row == Head(con.rows)
           fingerprint_template == b64decode(row[2])
           rest == Tail(con.rows)
       IN IF fingerprint_template = CodecError
          THEN /\ con' = ConIdle
               /\ ended' = Ended(Connector, [con EXCEPT !.outcome = "Raised"])
               /\ zkfp2_db' = zkfp2_db
          ELSE /\ IF rest = <<>>
                  THEN /\ con' = ConIdle
                       /\ ended' = Ended(Connector,
                                         [con EXCEPT !.rows = rest,
                                                     !.outcome = "Loaded"])
                  ELSE /\ con' = [con EXCEPT !.rows = rest]
                       /\ ended' = NoneEnded
               /\ \E replaces \in BOOLEAN :
                    zkfp2_db' = DBAdd(zkfp2_db, row[1], fingerprint_template,
                                      replaces)
    /\ UNCHANGED << fingerprints, table_exists, is_connected, db_lock, reg,
                    idn, committed >>

(***************************************************************************)
(* The program.                                                             *)
(***************************************************************************)
Register(p) ==
    \/ StartRegister(p)
    \/ RegisterPollMiss(p)
    \/ RegisterCapture(p)
    \/ RegisterMerge(p)
    \/ RegisterNextIdLock(p)
    \/ RegisterNextId(p)
    \/ RegisterDBAdd(p)
    \/ RegisterSaveLock(p)
    \/ RegisterSave(p)

Identify ==
    \/ StartIdentification
    \/ IdentifyPollMiss
    \/ IdentifyCapture
    \/ IdentifyNextIdLock
    \/ IdentifyNextId
    \/ IdentifyFetchLock
    \/ IdentifyFetch
    \/ IdentifyHeal

Connect ==
    \/ ConnectInitialize
    \/ ConnectSetupLock
    \/ ConnectSetup
    \/ ConnectLoadLock
    \/ ConnectLoadFetch
    \/ ConnectLoadRow

Next ==
    \/ \E p \in Registrars : Register(p)
    \/ Identify
    \/ Connect

Spec == Init /\ [][Next]_vars

\* each handler runs in a thread of its own: a thread that can take a step
\* takes it, a poll of AcquireFingerprint that is repeated gets a sample, and
\* a thread that waits at db_lock gets it if it is released again and again.
\* Pressing a button (the Start actions, a new connect) is never bound to
\* happen.
Fairness ==
    /\ \A p \in Registrars :
          /\ WF_vars(RegisterCapture(p))
          /\ WF_vars(RegisterMerge(p))
          /\ SF_vars(RegisterNextIdLock(p))
          /\ WF_vars(RegisterNextId(p))
          /\ WF_vars(RegisterDBAdd(p))
          /\ SF_vars(RegisterSaveLock(p))
          /\ WF_vars(RegisterSave(p))
    /\ WF_vars(IdentifyCapture)
    /\ SF_vars(IdentifyNextIdLock)
    /\ WF_vars(IdentifyNextId)
    /\ SF_vars(IdentifyFetchLock)
    /\ WF_vars(IdentifyFetch)
    /\ WF_vars(IdentifyHeal)
    /\ SF_vars(ConnectSetupLock)
    /\ WF_vars(ConnectSetup)
    /\ SF_vars(ConnectLoadLock)
    /\ WF_vars(ConnectLoadFetch)
    /\ WF_vars(ConnectLoadRow)

FairSpec == Spec /\ Fairness

(***************************************************************************)
(* Properties.                                                              *)
(***************************************************************************)
\* the record of a handler of the given kind that has just returned
EndedReg == ended # NoneEnded /\ ended[1].who \in Registrars
EndedIdn == ended # NoneEnded /\ ended[1].who = Identifier
EndedCon == ended # NoneEnded /\ ended[1].who = Connector
Last == ended[1].rec

\* the registration sessions: the running ones and the one that just returned
Sessions ==
    {reg[p] : p \in {q \in Registrars : Running(reg[q])}}
      \cup (IF EndedReg THEN {Last} ELSE {})

CalledIn(r, name) == \E k \in 1..Len(r.calls) : r.calls[k] = name

Decodable(table) == \A u \in DOMAIN table : b64decode(table[u]) # CodecError

\* the device cache that mirrors the table
Mirror(table) == [u \in DOMAIN table |-> b64decode(table[u])]

\* C1: in every registration session the INSERT of the merged template
\* succeeds before DBAdd is invoked for it, and a session whose INSERT
\* fails never invokes DBAdd.
C1_InsertBeforeDBAdd ==
    \A r \in Sessions :
        /\ \A k \in 1..Len(r.calls) :
             r.calls[k] = "DBAdd" => \E j \in 1..(k - 1) : r.calls[j] = "insert"
        /\ CalledIn(r, "insert_failed") => ~CalledIn(r, "DBAdd")

\* C2: every user id in the device cache has a row in the table.
C2_IndexedIsDurable ==
    \A u \in DOMAIN zkfp2_db : u \in DOMAIN fingerprints

\* C3: a registration in which DBIdentify returns a non-zero fid shows
\* "Fingerprint Exists" for that fid and returns in the same step, with the
\* samples retained so far (fewer than 3); it has called neither DBMerge,
\* DBAdd nor INSERT, and the step leaves the table unchanged.
C3_DuplicateAborts ==
    [][/\ \A p \in Registrars : reg'[p].outcome # "FingerprintExists"
       /\ (EndedReg' /\ Last'.outcome = "FingerprintExists") =>
            /\ Last'.fid # 0
            /\ Last'.fid \in DOMAIN zkfp2_db
            /\ Last'.calls = <<>>
            /\ Len(Last'.templates) < 3
            /\ Last'.templates = reg[ended'[1].who].templates
            /\ ~Running(reg'[ended'[1].who])
            /\ fingerprints' = fingerprints]_vars

\* a duplicate found on a later sample, after earlier samples were retained
C3_Witness ==
    /\ EndedReg
    /\ Last.outcome = "FingerprintExists"
    /\ Len(Last.templates) >= 1

\* C4: the ids of successive commits strictly increase, each commit raises
\* what get_next_user_id returns, and get_next_user_id never returns an id
\* that an earlier session committed.
C4_MonotonicAllocation ==
    [][/\ \A i, j \in 1..Len(committed') : i < j => committed'[i] < committed'[j]
       /\ committed' # committed =>
            get_next_user_id(fingerprints') > get_next_user_id(fingerprints)
       /\ \A p \in Registrars :
            (reg[p].pc = "next_id" /\ reg'[p].pc = "dbadd") =>
               /\ reg'[p].user_id \notin DOMAIN fingerprints
               /\ \A k \in 1..Len(committed) : reg'[p].user_id # committed[k]]_vars

\* two commits in a row
C4_Witness == Len(committed) >= 2

\* C5: get_next_user_id returns 1 for an empty table and otherwise the
\* largest user_id plus one, in registration and in identification.
NextIdOf(table) ==
    IF DOMAIN table = {} THEN 1
    ELSE (CHOOSE m \in DOMAIN table : \A u \in DOMAIN table : u <= m) + 1

C5_NextUserId ==
    [][/\ \A p \in Registrars :
            (reg[p].pc = "next_id" /\ reg'[p].pc = "dbadd") =>
               reg'[p].user_id = NextIdOf(fingerprints)
       /\ (idn.pc = "next_id" /\ idn'.pc = "fetch_wait") =>
               idn'.user_id = NextIdOf(fingerprints)]_vars

\* both cases: 1 was allocated from the empty table and committed, then
\* the identification was given 2
C5_Witness ==
    /\ idn.pc = "fetch_wait" /\ idn.user_id = 2
    /\ committed = << 1 >>
    /\ DOMAIN fingerprints = {1}

\* C6: with exactly one undecodable row in the table, load_fingerprints_from_db
\* returns normally and every decodable row it fetched is in the device cache.
C6_LoadSkipsCorrupt ==
    ( /\ EndedCon /\ Last.outcome # "ConnectionError"
      /\ Cardinality({u \in DOMAIN fingerprints :
                        b64decode(fingerprints[u]) = CodecError}) = 1 )
    => /\ Last.outcome = "Loaded"
       /\ \A i \in 1..Len(Last.rows) :
            b64decode(Last.rows[i][2]) # CodecError =>
               Last.rows[i][1] \in DOMAIN zkfp2_db

\* a successful connection has just finished over a decodable table
ConnectFinished ==
    /\ EndedCon /\ Last.outcome = "Loaded"
    /\ Decodable(fingerprints)

C8_GapHeal ==
    ( /\ EndedIdn /\ Last.gap /\ Last.fid = 0
      /\ b64decode(fingerprints[get_next_user_id(fingerprints) - 1]) # CodecError )
    => /\ Last.outcome = "FoundInDatabase"
       /\ get_next_user_id(fingerprints) - 1 \in DOMAIN zkfp2_db

\* a registration that ran alone from an empty table and an empty device
\* cache has just shown "Registration Success", its INSERT having gone through
FreshEnrolled ==
    /\ EndedReg /\ Last.fresh
    /\ Last.outcome = "RegistrationSuccess" /\ CalledIn(Last, "insert")

\* C9: such a registration was given user_id 1, and leaves the table with
\* the single row (1, b64encode(M)) and the cache with the single entry (1, M).
C9_FreshEnroll ==
    FreshEnrolled
    => /\ Last.user_id = 1
       /\ committed = << 1 >>
       /\ DOMAIN fingerprints = {1}
       /\ fingerprints[1] = b64encode(Last.regTemp)
       /\ b64decode(fingerprints[1]) = Last.regTemp
       /\ DOMAIN zkfp2_db = {1}
       /\ zkfp2_db[1] = Last.regTemp

C9_Witness == FreshEnrolled /\ Last.regTemp = TemplateA

\* C10: a registration whose INSERT failed does not end as "Registration
\* Success" and has left its template in neither the table nor the device
\* cache.
C10_StoreErrorSurfaced ==
    (EndedReg /\ CalledIn(Last, "insert_failed")) =>
        /\ Last.outcome # "RegistrationSuccess"
        /\ ~CalledIn(Last, "DBAdd")
        /\ ~CalledIn(Last, "insert")

C12_OneRecordPerUserId ==
    [][/\ \A i, j \in 1..Len(committed') : i # j => committed'[i] # committed'[j]
       /\ committed' # committed =>
            LET u == committed'[Len(committed')]
            IN /\ u \notin DOMAIN fingerprints
               /\ DOMAIN fingerprints' = DOMAIN fingerprints \cup {u}
               /\ \A v \in DOMAIN fingerprints : fingerprints'[v] = fingerprints[v]
       /\ fingerprints' # fingerprints => Len(committed') = Len(committed) + 1
       /\ \A p \in Registrars :
            ( /\ reg[p].pc = "save" /\ reg'[p].pc = "idle"
              /\ reg[p].user_id \in DOMAIN fingerprints )
            => /\ fingerprints' = fingerprints
               /\ committed' = committed
               /\ CalledIn(Last', "insert_failed")]_vars

\* an INSERT has just failed on the key: the row that was there first is
\* intact and is not the one this registration tried to write
C12_Witness ==
    /\ EndedReg /\ CalledIn(Last, "insert_failed")
    /\ Last.user_id \in DOMAIN fingerprints
    /\ fingerprints[Last.user_id] # b64encode(Last.regTemp)
    /\ committed # <<>> /\ Last.user_id = committed[Len(committed)]

\* C13: no step of any handler (registration, connect and load,
\* identification, heal) removes a row of the table or changes its template.
C13_RecordsImmutable ==
    [][\A u \in DOMAIN fingerprints :
          /\ u \in DOMAIN fingerprints'
          /\ fingerprints'[u] = fingerprints[u]]_vars

\* a heal has just run on the row a concurrent registration inserted next to
\* the row that was there from the start, which is intact
C13_Witness ==
    /\ EndedIdn /\ Last.outcome = "FoundInDatabase"
    /\ committed = << 2 >>
    /\ DOMAIN fingerprints = {1, 2}
    /\ fingerprints[1] = b64encode(TemplateA)
    /\ Last.user_id = 2

\* the handlers inside a statement on the table, and those waiting for the lock
InStore ==
    {p \in Registrars : reg[p].pc \in {"next_id", "save"}}
      \cup (IF idn.pc \in {"next_id", "fetch"} THEN {Identifier} ELSE {})
      \cup (IF con.pc \in {"setup", "load"} THEN {Connector} ELSE {})

AtLock ==
    {p \in Registrars : reg[p].pc \in {"next_id_wait", "save_wait"}}
      \cup (IF idn.pc \in {"next_id_wait", "fetch_wait"} THEN {Identifier} ELSE {})
      \cup (IF con.pc \in {"setup_wait", "load_wait"} THEN {Connector} ELSE {})

\* C14: at most one handler is inside a statement on the table (CREATE TABLE,
\* INSERT, the three SELECTs), and a handler inside one holds db_lock.
C14_StoreMutualExclusion ==
    /\ Cardinality(InStore) <= 1
    /\ \A h \in InStore : db_lock = h

\* a registration is inside its INSERT while the identification waits at
\* the lock for its SELECT
C14_Witness ==
    /\ \E p \in Registrars : reg[p].pc = "save" /\ db_lock = p
    /\ idn.pc = "fetch_wait"

\* C15: db_lock is held only by a handler that is inside a statement on the
\* table, whose next step (return or exception) releases it: the lock is
\* free whenever no handler is inside such a statement, and no handler
\* waits for the lock while holding it.
C15_LockReleased ==
    /\ InStore = {} => db_lock = NoOne
    /\ db_lock # NoOne => db_lock \in InStore
    /\ \A h \in AtLock : db_lock # h

\* sqlite3.OperationalError has just left get_next_user_id and the
\* registration, the lock is free and the connect that waits for it can go on
C15_Witness ==
    /\ EndedReg /\ Last.outcome = "Raised"
    /\ db_lock = NoOne
    /\ con.pc = "setup_wait"

\* byte strings over a low, a high and two middle byte values
TemplateBytes == {0, 77, 97, 255}
ByteStrings == UNION {[1..n -> TemplateBytes] : n \in 0..MaxTemplateLen}

RoundTrip == \A t \in ByteStrings : b64decode(b64encode(t)) = t

\* C16: b64decode(b64encode(t)) = t for every byte string t; the row a
\* registration inserts decodes to the merged template it enrolled, and a
\* load or a heal that comes to a row stored for a merged template M calls
\* DBAdd with the row's user_id and M.
C16_RoundTrip ==
    [][/\ RoundTrip
       /\ \A p \in Registrars :
            (reg[p].pc = "save" /\ committed' # committed) =>
               /\ fingerprints'[reg[p].user_id] = b64encode(reg[p].regTemp)
               /\ b64decode(fingerprints'[reg[p].user_id]) = reg[p].regTemp
       /\ \A M \in Templates :
            ( /\ con.pc = "rows"
              /\ (con'.pc = "idle" \/ con'.rows # con.rows)
              /\ Head(con.rows)[2] = b64encode(M) )
            => \E replaces \in BOOLEAN :
                  zkfp2_db' = DBAdd(zkfp2_db, Head(con.rows)[1], M, replaces)
       /\ \A M \in Templates :
            ( /\ idn.pc = "heal" /\ idn'.pc = "idle"
              /\ idn.row # NoRow
              /\ idn.row[2] = b64encode(M) )
            => \E replaces \in BOOLEAN :
                  zkfp2_db' = DBAdd(zkfp2_db, idn.user_id, M, replaces)]_vars

\* a load has just put back into the cleared device cache the template that
\* a registration of this run enrolled under user_id 1
C16_Witness ==
    /\ EndedCon /\ Last.outcome = "Loaded"
    /\ committed = << 1 >>
    /\ 1 \in DOMAIN zkfp2_db
    /\ fingerprints[1] = b64encode(TemplateA)
    /\ zkfp2_db[1] = TemplateA
    /\ ~Running(reg["r1"]) /\ ~Running(reg["r2"])

\* C17: an identification whose DBIdentify returns a non-zero fid shows
\* "User Identified" for that fid and returns in the same step, having taken
\* no lock, made no query and added nothing to the device cache; it is past
\* its DBIdentify (at the lock, in a query, at the heal) only with fid 0; and
\* no step of the identification changes the table.
C17_IdentifyFrame ==
    [][/\ (idn.pc = "capture" /\ idn'.pc = "idle") =>
            /\ EndedIdn' /\ Last'.outcome = "UserIdentified"
            /\ Last'.fid # 0 /\ Last'.fid \in DOMAIN zkfp2_db
            /\ Last'.user_id = 0 /\ Last'.row = NoRow
            /\ UNCHANGED << fingerprints, table_exists, zkfp2_db, db_lock,
                            committed >>
       /\ (EndedIdn' /\ Last'.outcome = "UserIdentified") => idn.pc = "capture"
       /\ idn'.pc \in {"next_id_wait", "next_id", "fetch_wait", "fetch", "heal"}
            => idn'.fid = 0
       /\ (EndedIdn' /\ Last'.outcome \in {"FoundInDatabase", "IdentificationFailed"})
            => Last'.fid = 0
       /\ idn'.pc # idn.pc =>
            /\ fingerprints' = fingerprints
            /\ table_exists' = table_exists
            /\ committed' = committed]_vars

\* a match has just been reported while the table holds a row
C17_Witness ==
    /\ EndedIdn /\ Last.outcome = "UserIdentified"
    /\ Last.fid \in DOMAIN zkfp2_db
    /\ DOMAIN fingerprints # {}

\* the number of DBMerge calls a registration has made
Merges(r) == Cardinality({k \in 1..Len(r.calls) : r.calls[k] = "merge"})

\* C18: a registration in round i of its capture loop holds i - 1 samples;
\* it leaves the round only by appending one sample (to round i + 1, or to
\* DBMerge after the third) or by returning on a duplicate; DBMerge is
\* called at most once, on exactly 3 samples, and a poll of
\* AcquireFingerprint that returns nothing is a step that changes nothing.
C18_ThreeSamplesThenMerge ==
    [][/\ \A p \in Registrars :
            /\ reg'[p].pc = "capture" => Len(reg'[p].templates) \in {0, 1, 2}
            /\ reg'[p].pc = "merge" => Len(reg'[p].templates) = 3
            /\ (reg[p].pc = "capture" /\ reg'[p].pc # "capture") =>
                  \/ /\ reg'[p].pc = "merge"
                     /\ Len(reg[p].templates) = 2
                     /\ \E tmp \in Samples :
                          reg'[p].templates = Append(reg[p].templates, tmp)
                  \/ /\ reg'[p].pc = "idle"
                     /\ EndedReg' /\ ended'[1].who = p
                     /\ Last'.outcome = "FingerprintExists"
            /\ (reg[p].pc = "capture" /\ reg'[p].pc = "capture") =>
                  \/ reg'[p].templates = reg[p].templates
                  \/ \E tmp \in Samples :
                       reg'[p].templates = Append(reg[p].templates, tmp)
            /\ reg'[p].pc = "capture" => reg[p].pc \in {"idle", "capture"}
            /\ reg'[p].pc = "merge" => reg[p].pc \in {"capture", "merge"}
       /\ \A r \in Sessions' :
            /\ Merges(r) <= 1
            /\ Merges(r) = 1 => Len(r.templates) = 3
            /\ (r.pc \notin {"capture", "merge", "done"}) => Merges(r) = 1
            /\ Len(r.calls) >= 1 => r.calls[1] = "merge"]_vars

\* a registration has made its one DBMerge call on three samples and goes on
C18_Witness ==
    \E p \in Registrars :
        /\ reg[p].pc = "next_id_wait"
        /\ Merges(reg[p]) = 1
        /\ Len(reg[p].templates) = 3

\* the rows the table has gained since the registration r started
Growth(r) == Cardinality(DOMAIN fingerprints) - r.rows0

\* the INSERTs the registration r has executed, and those that went through
Attempts(r) ==
    {k \in 1..Len(r.calls) : r.calls[k] \in {"insert", "insert_failed"}}
Inserts(r) == {k \in 1..Len(r.calls) : r.calls[k] = "insert"}

\* C19 as stated: when a registration returns, the table has 0 or 1 rows
\* more than when it started, and 1 more only if its DBMerge gave a template.
C19_GrowsByAtMostOne ==
    EndedReg =>
        /\ Growth(Last) \in {0, 1}
        /\ Growth(Last) = 1 => Truthy(Last.regTemp)

\* C19 amended: a registration executes at most one INSERT, and only after
\* a DBMerge that gave a template; of the rows the table has gained between
\* its start and its return exactly one is its own if that INSERT went
\* through and none otherwise, the others being commits of other
\* registrations.
C19_OwnRecordAtMostOne ==
    EndedReg =>
        LET during == (Len(committed) - Growth(Last) + 1)..Len(committed)
            own == {k \in during : /\ Inserts(Last) # {}
                                   /\ committed[k] = Last.user_id}
        IN /\ Growth(Last) \in 0..Len(committed)
           /\ Cardinality(Attempts(Last)) <= 1
           /\ Attempts(Last) # {} => Merges(Last) = 1 /\ Truthy(Last.regTemp)
           /\ Cardinality(own) = Cardinality(Inserts(Last))

\* a registration has just returned after its own INSERT, and the table has
\* gained two rows since it started: the other is the commit of the
\* registration that ran beside it
C19_Witness ==
    /\ EndedReg /\ Inserts(Last) # {}
    /\ Growth(Last) = 2
    /\ Len(committed) = 2 /\ committed[2] = Last.user_id

\* the registrations that hold a user_id from get_next_user_id and have not
\* returned
Allocated == {p \in Registrars : reg[p].pc \in {"dbadd", "save_wait", "save"}}

\* C20: get_next_user_id can give a registration the user_id that another
\* running registration already holds, and it does so exactly in the window
\* the two separate `with self.db_lock` blocks leave open: the other
\* registration has released the lock after its SELECT MAX and has not yet
\* taken it again for its INSERT, so the id is not in the table.
C20_CollisionWindow ==
    [][\A p, q \in Registrars :
          ( /\ p # q
            /\ reg[q].pc = "next_id" /\ reg'[q].pc = "dbadd"
            /\ p \in Allocated
            /\ reg'[q].user_id = reg[p].user_id )
          => /\ reg[p].pc \in {"dbadd", "save_wait"}
             /\ db_lock = q
             /\ reg[p].user_id \notin DOMAIN fingerprints
             /\ reg[p].user_id = NextIdOf(fingerprints)]_vars

\* the interleaving: two running registrations hold the same user_id
C20_Witness ==
    /\ Allocated = Registrars
    /\ reg["r1"].user_id = reg["r2"].user_id
    /\ reg["r1"].regTemp # reg["r2"].regTemp

\* C21: when a step of initialize_zkfp2 fails, connect_to_device shows
\* "Connection Error" and returns in that step: setup_database and
\* load_fingerprints_from_db are not run, the table and the device cache are
\* as they were, and is_connected is false afterwards.
C21_InitFailureNotConnected ==
    [][(EndedCon' /\ Last'.outcome = "ConnectionError") =>
          /\ ~Running(con) /\ ~Running(con')
          /\ Last'.rows = <<>>
          /\ UNCHANGED << fingerprints, table_exists, zkfp2_db, db_lock,
                          committed >>
          /\ ~is_connected']_vars

\* the dialogs that close a registration and an identification
RegistrationReports == {"RegistrationSuccess", "FingerprintExists", "MergeFailed"}
IdentificationReports == {"UserIdentified", "FoundInDatabase", "IdentificationFailed"}

\* C22: under Fairness every registration that has started returns, and
\* returns with "Registration Success", "Fingerprint Exists" or the merge
\* error; every identification that has started returns, and returns with
\* "User Identified", "User Found in Database" or "Identification Failed".
C22_EventuallyReports ==
    /\ \A p \in Registrars : Running(reg[p]) ~> ~Running(reg[p])
    /\ Running(idn) ~> ~Running(idn)
    /\ [](EndedReg => Last.outcome \in RegistrationReports)
    /\ [](EndedIdn => Last.outcome \in IdentificationReports)

\* an identification with no registration commit between its start and its
\* return has just returned from the miss path (DBIdentify gave 0)
CalmMiss == EndedIdn /\ Last.calm /\ Last.fid = 0

C24_IndexMatchesStore ==
    \A u \in DOMAIN zkfp2_db \cap DOMAIN fingerprints :
        zkfp2_db[u] = b64decode(fingerprints[u])

====
